---------------------------- MODULE Spec2Model ----------------------------
(***************************************************************************)
(* Model of the keyword-matching and paragraph-extraction pipeline of the  *)
(* Firm-Report-Web-Crawler repository: the text utilities                  *)
(* (src/src/utils/text_utils.py), the PDF download helper                  *)
(* (src/src/utils/pdf_utils.py) and the paged crawl loops of the Ganfeng   *)
(* and Sinomine crawlers (src/src/crawlers/*.py).                          *)
(*                                                                         *)
(* A text is a sequence of Unicode code points (naturals).                 *)
(***************************************************************************)
EXTENDS Naturals, Sequences, FiniteSets

(***************************************************************************)
(* Code points the source names (FW_COMMA and FW_STOP: the full-width      *)
(* comma and full stop of the filter in src/test.py).                      *)
(***************************************************************************)
TAB == 9
LF == 10
CR == 13
SP == 32
CJK_LO == 19968
CJK_HI == 40959
FW_COMMA == 65292
FW_STOP == 12290

(***************************************************************************)
(* Bounds of the model.                                                    *)
(***************************************************************************)
MaxTextLen == 5
MaxParas == 2
MaxRecords == 2
MaxKeywords == 2
MaxKwLen == 4
MaxHlParaLen == 3
MaxHlKwLen == 2
MaxQRecords == 2
MaxSections == 2

(***************************************************************************)
(* Sample characters used by the inputs: U+0001 (a control character),     *)
(* 'a' = 97, 'b' = 98, 'A' = 65, 'B' = 66, '_' = 95, and the ideographs    *)
(* U+9502 = 38146 and U+4E1A = 19994.                                      *)
(***************************************************************************)
Ctl == {1}

(***************************************************************************)
(* Python's str.isspace() / the regex class \s over the Basic Multilingual *)
(* Plane: used by str.strip() and by \s in re.split.                       *)
(***************************************************************************)
IsSpace(ch) ==
    \/ ch \in {9, 10, 11, 12, 13, 28, 29, 30, 31, 32, 133, 160, 5760}
    \/ (ch >= 8192 /\ ch <= 8202)
    \/ ch \in {8232, 8233, 8239, 8287, 12288}

(* str.lower() on the sample alphabet: only A-Z have a lower-case form. *)
LowerCh(ch) == IF ch >= 65 /\ ch <= 90 THEN ch + 32 ELSE ch

Lower(s) == [i \in 1..Len(s) |-> LowerCh(s[i])]

(* Python's `sub in s` for strings. *)
Contains(s, sub) ==
    \E i \in 0..Len(s) :
        /\ i + Len(sub) <= Len(s)
        /\ SubSeq(s, i + 1, i + Len(sub)) = sub

RECURSIVE Concat(_)
Concat(ss) == IF ss = <<>> THEN <<>> ELSE Head(ss) \o Concat(Tail(ss))

(***************************************************************************)
(* sanitize_text: keep tab, newline and every character of ordinal >= 32.  *)
(***************************************************************************)
KeepChar(ch) == ch \in {TAB, LF} \/ ch >= SP

sanitize_text_DropsTab(text) ==
    LET Keep(ch) == ch = LF \/ ch >= SP IN SelectSeq(text, Keep)

sanitize_text_FirstControlOnly(text) ==
    LET bad == {i \in 1..Len(text) : ~KeepChar(text[i])}
    IN IF bad = {} THEN text
       ELSE LET f == CHOOSE i \in bad : \A j \in bad : i <= j
            IN SubSeq(text, 1, f - 1) \o SubSeq(text, f + 1, Len(text))

sanitize_text(text) == SelectSeq(text, KeepChar)

(***************************************************************************)
(* text.replace('\r\n', '\n').replace('\r', '\n')                          *)
(***************************************************************************)
RECURSIVE ReplaceCRLF(_)
ReplaceCRLF(text) ==
    IF text = <<>> THEN <<>>
    ELSE IF Len(text) >= 2 /\ text[1] = CR /\ text[2] = LF
         THEN <<LF>> \o ReplaceCRLF(SubSeq(text, 3, Len(text)))
         ELSE <<text[1]>> \o ReplaceCRLF(Tail(text))

ReplaceCR(text) == [i \in 1..Len(text) |-> IF text[i] = CR THEN LF ELSE text[i]]

NormalizeNewlines(text) == ReplaceCR(ReplaceCRLF(text))

(***************************************************************************)
(* re.split(r'\n\s*\n+', text).  A match starts at a newline at index i    *)
(* and ends at the last newline of the maximal whitespace run that follows *)
(* it (\s* is greedy and backtracks to the last newline, which \n+ takes). *)
(***************************************************************************)
RECURSIVE SpaceRunEnd(_, _)
SpaceRunEnd(text, j) ==
    IF j + 1 <= Len(text) /\ IsSpace(text[j + 1])
    THEN SpaceRunEnd(text, j + 1)
    ELSE j

(* The pattern \n\s+\n+ in place of \n\s*\n+ *)
MatchEnd_NeedsSpace(text, i) ==
    IF text[i] # LF THEN 0
    ELSE LET j == SpaceRunEnd(text, i)
             ends == {m \in (i + 2)..j : text[m] = LF}
         IN IF ends = {} THEN 0
            ELSE CHOOSE m \in ends : \A m2 \in ends : m2 <= m

(* 0 when the pattern does not match at i. *)
MatchEnd(text, i) ==
    IF text[i] # LF THEN 0
    ELSE LET j == SpaceRunEnd(text, i)
             ends == {m \in (i + 1)..j : text[m] = LF}
         IN IF ends = {} THEN 0
            ELSE CHOOSE m \in ends : \A m2 \in ends : m2 <= m

RECURSIVE SplitFrom(_, _, _)
SplitFrom(text, s, i) ==
    IF i > Len(text) THEN <<SubSeq(text, s, Len(text))>>
    ELSE LET e == MatchEnd(text, i)
         IN IF e = 0 THEN SplitFrom(text, s, i + 1)
            ELSE <<SubSeq(text, s, i - 1)>> \o SplitFrom(text, e + 1, e + 1)

RECURSIVE SplitOnDoubleNewline(_, _, _)
SplitOnDoubleNewline(text, s, i) ==
    IF i > Len(text) THEN <<SubSeq(text, s, Len(text))>>
    ELSE IF i < Len(text) /\ text[i] = LF /\ text[i + 1] = LF
         THEN <<SubSeq(text, s, i - 1)>> \o SplitOnDoubleNewline(text, i + 2, i + 2)
         ELSE SplitOnDoubleNewline(text, s, i + 1)

(* text.split('\n\n') *)
SplitBlankLines_ExactDoubleNewline(text) == SplitOnDoubleNewline(text, 1, 1)

SplitBlankLines(text) == SplitFrom(text, 1, 1)

(* str.strip() *)
RECURSIVE LStrip(_)
LStrip(s) == IF s # <<>> /\ IsSpace(Head(s)) THEN LStrip(Tail(s)) ELSE s

RECURSIVE RStrip(_)
RStrip(s) ==
    IF s # <<>> /\ IsSpace(s[Len(s)]) THEN RStrip(SubSeq(s, 1, Len(s) - 1)) ELSE s

(* str.lstrip() in place of str.strip() *)
Strip_LeftOnly(s) == LStrip(s)

Strip(s) == RStrip(LStrip(s))

(* blocks = [blk.strip() for blk in re.split(...) if blk.strip()] *)
Blocks(text) ==
    LET chunks == SplitBlankLines(NormalizeNewlines(text))
        stripped == [i \in 1..Len(chunks) |-> Strip(chunks[i])]
        NonEmpty(b) == b # <<>>
    IN SelectSeq(stripped, NonEmpty)

find_paragraphs_with_keyword(text, keyword) ==
    LET keyword_lower == Lower(keyword)
        Hit(blk) == Contains(Lower(blk), keyword_lower)
    IN SelectSeq(Blocks(text), Hit)

(***************************************************************************)
(* is_chinese_char and generate_variants.                                  *)
(***************************************************************************)
is_chinese_char(ch) == ch >= CJK_LO /\ ch <= CJK_HI

RECURSIVE RunEnd(_, _, _)
(* The inner while loops: the first index >= i whose class differs. *)
RunEnd(keyword, i, chinese) ==
    IF i <= Len(keyword) /\ is_chinese_char(keyword[i]) = chinese
    THEN RunEnd(keyword, i + 1, chinese)
    ELSE i

(* A join that leaves a space after every character, the last included. *)
JoinWithSpace_Trailing(run) ==
    Concat([i \in 1..Len(run) |-> <<run[i], SP>>])

RECURSIVE JoinWithSpace(_)
(* ' '.join(run) *)
JoinWithSpace(run) ==
    IF Len(run) <= 1 THEN run
    ELSE <<Head(run), SP>> \o JoinWithSpace(Tail(run))

RECURSIVE Segments(_, _)
(* The outer while loop: the (run, spaced) pairs from index i on. *)
Segments(keyword, i) ==
    IF i > Len(keyword) THEN <<>>
    ELSE LET chinese == is_chinese_char(keyword[i])
             j == RunEnd(keyword, i, chinese)
             run == SubSeq(keyword, i, j - 1)
             spaced == IF chinese /\ Len(run) >= 2 THEN JoinWithSpace(run) ELSE run
         IN <<<<run, spaced>>>> \o Segments(keyword, j)

(* The returned list without the original keyword when a spaced form exists. *)
VariantsOf_SpacedOnly(segments) ==
    LET orig == Concat([i \in 1..Len(segments) |-> segments[i][1]])
        spaced_all == Concat([i \in 1..Len(segments) |-> segments[i][2]])
    IN IF spaced_all # orig THEN <<spaced_all>> ELSE <<orig>>

(* Lines 45-50: orig, spaced_all and the returned list. *)
VariantsOf(segments) ==
    LET orig == Concat([i \in 1..Len(segments) |-> segments[i][1]])
        spaced_all == Concat([i \in 1..Len(segments) |-> segments[i][2]])
    IN IF spaced_all # orig THEN <<orig, spaced_all>> ELSE <<orig>>

generate_variants(keyword) == VariantsOf(Segments(keyword, 1))

(* paras = list(dict.fromkeys(paras)): first occurrences, in order. *)
InSeq(x, s) == \E i \in 1..Len(s) : s[i] = x

RECURSIVE DedupFrom(_, _)
DedupFrom(s, seen) ==
    IF s = <<>> THEN <<>>
    ELSE IF Head(s) \in seen THEN DedupFrom(Tail(s), seen)
         ELSE <<Head(s)>> \o DedupFrom(Tail(s), seen \cup {Head(s)})

Dedup_KeepsAll(s) == s

Dedup(s) == DedupFrom(s, {})

(***************************************************************************)
(* Inputs of a crawl.                                                      *)
(***************************************************************************)
KW_CJK == <<38146, 19994>>
KW_LATIN == <<97, 98>>
KeywordPool == {KW_CJK, KW_LATIN}

(* Paragraphs a converted document is made of. *)
ParaPool ==
    { <<38146, 19994>>,                       \* the keyword, unspaced
      <<38146, 32, 19994>>,                   \* the keyword, spaced
      <<38146, 19994, 32, 38146, 32, 19994>>, \* both forms
      <<65, 66, 65292>> }                     \* upper-case Latin and a full-width comma

RECURSIVE JoinParas(_)
JoinParas(ps) ==
    IF ps = <<>> THEN <<>>
    ELSE IF Len(ps) = 1 THEN Head(ps)
         ELSE Head(ps) \o <<LF, LF>> \o JoinParas(Tail(ps))

SeqsUpTo(S, n) == UNION {[1..m -> S] : m \in 0..n}

(* The texts pdftext (or the HTML text extraction) can hand to a crawl. *)
RawTexts == {JoinParas(ps) : ps \in SeqsUpTo(ParaPool, MaxParas)}

KeywordLists == SeqsUpTo(KeywordPool, MaxKeywords) \ {<<>>}

(* Publish dates are day numbers; 0 stands for None / a missing date. *)
Dates == {1, 2, 3}
DateRanges == {<<0, 0>>, <<2, 0>>, <<0, 2>>, <<2, 2>>}

Crawlers == {"ganfeng", "sinomine_broker", "sinomine_announcements"}

(* config page_size, scaled down to the listing's size. *)
PageSize == MaxRecords

VARIABLES
    crawler,      \* which crawl method runs
    keywords,     \* the keyword list handed to it
    start_date, end_date,
    pc,           \* position in the crawl method
    status,       \* running | returned | exit (sys.exit) | raised (exception left the method)
    event,        \* outcome of the step just taken
    page, nrec, idx, break_page, fetched,
    doc,          \* number of the record being processed
    records,      \* publish dates of the records of the fetched page, 0 for none
    text,         \* the local `text`
    last_kw,      \* index of the keyword last evaluated against `text`, 0 if none
    paras,        \* the paragraphs selected for that keyword, before the filter
    kept,         \* the paragraphs written for that keyword
    docs,         \* docs[kw]: the entries added to the keyword's Document
    generated,    \* the returned keyword -> path mapping
    files,        \* paths written by doc.save
    t_pc, t_raw, t_text, t_blocks,  \* the text pipeline run on its own
    g_pc, g_keyword, g_i, g_segments, g_variants,  \* generate_variants, loop by loop
    m_pc,         \* position in main()
    m_line,       \* the line last typed at the keyword prompt
    h_pc, h_para, h_keyword, h_pos,  \* add_keyword_paragraphs on one paragraph
    h_runs,       \* the runs added to p2: [text, hl]
    h_spans,      \* <<m.start(), m.end()>> of every match so far
    q_pc, q_records, q_start, q_end, q_keywords,  \* Sinomine crawl_quarterly_performance
    q_i, q_pub, q_selections, q_s, q_headings,
    s_pc, s_types, s_sections, s_i, s_log, s_dirs  \* main's dispatch loop over run_section

crawl_vars == <<crawler, keywords, start_date, end_date, pc, status, event, page,
                nrec, idx, break_page, fetched, doc, records, text, last_kw,
                paras, kept, docs, generated, files>>
text_vars == <<t_pc, t_raw, t_text, t_blocks>>
variant_vars == <<g_pc, g_keyword, g_i, g_segments, g_variants>>
main_vars == <<m_pc, m_line>>
highlight_vars == <<h_pc, h_para, h_keyword, h_pos, h_runs, h_spans>>
quarterly_vars == <<q_pc, q_records, q_start, q_end, q_keywords, q_i, q_pub,
                    q_selections, q_s, q_headings>>
section_vars == <<s_pc, s_types, s_sections, s_i, s_log, s_dirs>>
vars == <<crawl_vars, text_vars, variant_vars, main_vars, highlight_vars,
          quarterly_vars, section_vars>>

HighlightIdle ==
    /\ h_pc = "idle" /\ h_para = <<>> /\ h_keyword = <<>> /\ h_pos = 0
    /\ h_runs = <<>> /\ h_spans = <<>>

QuarterlyIdle ==
    /\ q_pc = "idle" /\ q_records = <<>> /\ q_start = 0 /\ q_end = 0
    /\ q_keywords = <<>> /\ q_i = 0 /\ q_pub = 0 /\ q_selections = <<>>
    /\ q_s = 0 /\ q_headings = <<>>

SectionsIdle ==
    /\ s_pc = "idle" /\ s_types = <<>> /\ s_sections = {} /\ s_i = 0
    /\ s_log = <<>> /\ s_dirs = {}

(***************************************************************************)
(* Helpers of the crawl loops.                                             *)
(***************************************************************************)
Min(a, b) == IF a <= b THEN a ELSE b

IsGanfeng == crawler = "ganfeng"

(* page = 1 (Ganfeng), page_index = 0 (Sinomine) *)
FirstPage == IF IsGanfeng THEN 1 ELSE 0

(* safe_kw = kw.replace(" ", "_"); the rest of the path is fixed in a crawl. *)
OutPath(kw) == [i \in 1..Len(kw) |-> IF kw[i] = SP THEN 95 ELSE kw[i]]

(* docs.items(): the distinct keywords in first-occurrence order. *)
DocKeys == Dedup(keywords)

(* doc.add_heading(title) and add_keyword[_variant]_paragraphs(doc, paras, ...):
   one entry of the keyword's Document, recording the record's heading and the
   paragraph list handed to the writer. *)
AddEntry(document, d, ps) == Append(document, [doc |-> d, paras |-> ps])

(* The filter of ganfeng.py line 119. *)
HasChinese(p) == \E i \in 1..Len(p) : is_chinese_char(p[i])

FilterChinese(ps) == SelectSeq(ps, HasChinese)

(* Lines 114-118 of ganfeng.py: search each variant, concatenate, de-duplicate. *)
VariantHits(txt, kw) ==
    LET variants == generate_variants(kw)
    IN Concat([i \in 1..Len(variants) |-> find_paragraphs_with_keyword(txt, variants[i])])

(* download_pdf: the bytes, or sys.exit(1) on an HTTP error and on an HTML
   response without a 'url' query parameter. *)
DownloadOutcomes == {"pdf", "preview_ok", "http_error", "html_no_url", "preview_http_error"}

download_pdf(outcome) == IF outcome \in {"pdf", "preview_ok"} THEN "bytes" ELSE "exit"

(* The temporary files left after the except clause and whether the finally
   clause's os.remove finds them: Sinomine removes them in both clauses. *)
CleanupRaises(failed) ==
    LET tmp_files == {"pdf", "txt"}
        after_except == IF failed /\ ~IsGanfeng THEN {} ELSE tmp_files
    IN ~("pdf" \in after_except)

(***************************************************************************)
(* The crawl method: GanfengCrawler.crawl_quarterly_performance (and the   *)
(* identical loop of crawl_company_announcements),                         *)
(* SinomineCrawler.crawl_broker_reports and crawl_company_announcements.   *)
(***************************************************************************)
CrawlInit ==
    /\ crawler \in Crawlers
    /\ keywords \in KeywordLists
    /\ \E r \in DateRanges : start_date = r[1] /\ end_date = r[2]
    /\ pc = "start"
    /\ status = "running"
    /\ event = "none"
    /\ page = 0 /\ nrec = 0 /\ idx = 0 /\ break_page = FALSE /\ fetched = 0
    /\ doc = 0 /\ records = <<>>
    /\ text = <<>> /\ last_kw = 0 /\ paras = <<>> /\ kept = <<>>
    /\ docs = <<>>
    /\ generated = <<>>
    /\ files = {}

Running(p) == status = "running" /\ pc = p

(* os.makedirs; docs = {kw: Document() for kw in keywords}; generated = {}; page *)
Start ==
    /\ Running("start")
    /\ docs' = [kw \in {keywords[i] : i \in 1..Len(keywords)} |-> <<>>]
    /\ generated' = <<>>
    /\ page' = FirstPage
    /\ pc' = "fetch"
    /\ event' = "none"
    /\ UNCHANGED <<text_vars, variant_vars, main_vars>>
    /\ UNCHANGED <<highlight_vars, quarterly_vars, section_vars>>
    /\ UNCHANGED <<crawler, keywords, start_date, end_date, status, nrec, idx,
                   break_page, fetched, doc, records, text, last_kw, paras, kept, files>>

(* records = self.fetch_..._page(page); if not records: break *)
FetchPage ==
    /\ Running("fetch")
    /\ \/ \E recs \in SeqsUpTo(Dates \cup {0}, Min(PageSize, MaxRecords - fetched)) :
            /\ records' = recs
            /\ nrec' = Len(recs)
            /\ fetched' = fetched + Len(recs)
            /\ idx' = 1
            /\ break_page' = FALSE
            /\ pc' = IF recs = <<>> THEN "save" ELSE "record"
            /\ event' = "none"
            /\ UNCHANGED status
       \/ (* Ganfeng: resp.raise_for_status() is not caught; Sinomine's
             fetchers catch every exception and return []. *)
          /\ IF IsGanfeng
             THEN status' = "raised" /\ pc' = pc
             ELSE status' = status /\ pc' = "save"
          /\ event' = "fetch_failed"
          /\ nrec' = 0
          /\ records' = <<>>
          /\ UNCHANGED <<fetched, idx, break_page>>
    /\ UNCHANGED <<text_vars, variant_vars, main_vars>>
    /\ UNCHANGED <<highlight_vars, quarterly_vars, section_vars>>
    /\ UNCHANGED <<crawler, keywords, start_date, end_date, page, doc, text,
                   last_kw, paras, kept, docs, generated, files>>

(* pub_date of the record the loop is at: it.select_one('.datetime') text or
   None (Ganfeng), rec.get("publishDate", "") (Sinomine). *)
pub_date == IF idx \in 1..Len(records) THEN records[idx] ELSE 0

(* The date window turned off: no record is too old. *)
BeforeStart_Never(d) == FALSE

(* if end_date and pub_date and pub_date > end_date: continue *)
AfterEnd(d) == end_date # 0 /\ d # 0 /\ d > end_date

(* if start_date and pub_date and pub_date < start_date: break_page = True; break *)
BeforeStart(d) == start_date # 0 /\ d # 0 /\ d < start_date

(* for rec in records: the date window. *)
NextRecord ==
    /\ Running("record")
    /\ IF idx > nrec
       THEN /\ pc' = "page_end"
            /\ event' = "none"
            /\ UNCHANGED <<status, idx, break_page, doc>>
       ELSE LET d == pub_date
            IN
            /\ doc' = doc + 1
            /\ IF d = 0 /\ ~IsGanfeng
               THEN (* rec.get("publishDate", "").split()[0]: IndexError *)
                    /\ status' = "raised"
                    /\ event' = "date_missing"
                    /\ UNCHANGED <<pc, idx, break_page>>
               ELSE IF AfterEnd(d)
               THEN /\ idx' = idx + 1
                    /\ event' = "none"
                    /\ UNCHANGED <<status, pc, break_page>>
               ELSE IF BeforeStart(d)
               THEN /\ break_page' = TRUE
                    /\ pc' = "page_end"
                    /\ event' = "none"
                    /\ UNCHANGED <<status, idx>>
               ELSE /\ pc' = "download"
                    /\ event' = "none"
                    /\ UNCHANGED <<status, idx, break_page>>
    /\ text' = <<>> /\ last_kw' = 0 /\ paras' = <<>> /\ kept' = <<>>
    /\ UNCHANGED <<text_vars, variant_vars, main_vars>>
    /\ UNCHANGED <<highlight_vars, quarterly_vars, section_vars>>
    /\ UNCHANGED <<crawler, keywords, start_date, end_date, page, nrec, fetched,
                   records, docs, generated, files>>

(* The paragraphs selected for a keyword, before the filter: Ganfeng lines
   114-118 (every variant, de-duplicated), Sinomine line 105 (the keyword). *)
SelectParagraphs_SeenAcrossDocs(txt, kw) ==
    LET hits == IF IsGanfeng THEN Dedup(VariantHits(txt, kw))
                ELSE find_paragraphs_with_keyword(txt, kw)
        Fresh(p) == \A i \in 1..Len(docs[kw]) :
                        docs[kw][i].doc = doc \/ ~InSeq(p, docs[kw][i].paras)
    IN SelectSeq(hits, Fresh)

SelectParagraphs(txt, kw) ==
    IF IsGanfeng THEN Dedup(VariantHits(txt, kw))
    ELSE find_paragraphs_with_keyword(txt, kw)

(* Ganfeng line 119; the Sinomine loops apply no filter. *)
FilterParagraphs(ps) == IF IsGanfeng THEN FilterChinese(ps) ELSE ps

(* The guard left out: a heading is added for every document. *)
HasParas_Always(ps) == TRUE

(* if not paras: continue *)
HasParas(ps) == ps # <<>>

(* `break` in place of `continue` when the keyword has no paragraph. *)
KeywordLoopEnds_BreakOnNoMatch(kwi, out) == kwi = Len(keywords) \/ out = <<>>

(* `for kw in keywords:` ends after the last keyword; `if not paras: continue`
   goes on to the next one. *)
KeywordLoopEnds(kwi, out) == kwi = Len(keywords)

(* pdf_bytes = download_pdf(url), and in crawl_broker_reports the rendered-HTML
   route and the is_html test on the bytes. *)
Download ==
    /\ Running("download")
    /\ \/ /\ crawler = "sinomine_broker"
          /\ \/ (* fetch_rendered_html returned None: continue *)
                /\ idx' = idx + 1
                /\ pc' = "record"
                /\ event' = "render_failed"
                /\ UNCHANGED <<status, text>>
             \/ (* text = BeautifulSoup(html_text, "lxml").get_text("\n") *)
                \E t \in RawTexts :
                    /\ text' = t
                    /\ pc' = "keywords"
                    /\ event' = "none"
                    /\ UNCHANGED <<status, idx>>
       \/ \E outcome \in DownloadOutcomes :
            IF download_pdf(outcome) = "exit"
            THEN /\ status' = "exit"
                 /\ event' = "download_failed"
                 /\ UNCHANGED <<pc, idx, text>>
            ELSE \/ (* is_html: text = pdf_bytes.decode(...) *)
                    /\ crawler = "sinomine_broker"
                    /\ \E t \in RawTexts : text' = t
                    /\ pc' = "keywords"
                    /\ event' = "none"
                    /\ UNCHANGED <<status, idx>>
                 \/ /\ pc' = "convert"
                    /\ event' = "none"
                    /\ UNCHANGED <<status, idx, text>>
    /\ UNCHANGED <<text_vars, variant_vars, main_vars>>
    /\ UNCHANGED <<highlight_vars, quarterly_vars, section_vars>>
    /\ UNCHANGED <<crawler, keywords, start_date, end_date, page, nrec, break_page,
                   fetched, doc, records, last_kw, paras, kept, docs, generated, files>>

(* subprocess.run(["pdftext", ...]); text = f_txt.read(); except; finally;
   and, in Ganfeng, text = sanitize_text(text) *)
Convert ==
    /\ Running("convert")
    /\ \E failed \in BOOLEAN :
        IF CleanupRaises(failed)
        THEN /\ status' = "raised"
             /\ event' = "convert_failed"
             /\ UNCHANGED <<pc, idx, text>>
        ELSE IF failed
        THEN /\ idx' = idx + 1
             /\ pc' = "record"
             /\ event' = "convert_failed"
             /\ UNCHANGED <<status, text>>
        ELSE \E t \in RawTexts :
             /\ text' = IF IsGanfeng THEN sanitize_text(t) ELSE t
             /\ pc' = "keywords"
             /\ event' = "none"
             /\ UNCHANGED <<status, idx>>
    /\ UNCHANGED <<text_vars, variant_vars, main_vars>>
    /\ UNCHANGED <<highlight_vars, quarterly_vars, section_vars>>
    /\ UNCHANGED <<crawler, keywords, start_date, end_date, page, nrec, break_page,
                   fetched, doc, records, last_kw, paras, kept, docs, generated, files>>

(* One iteration of `for kw in keywords:`. *)
KeywordStep ==
    /\ Running("keywords")
    /\ LET kwi == last_kw + 1
           kw == keywords[kwi]
           txt == IF IsGanfeng THEN text ELSE sanitize_text(text)
           sel == SelectParagraphs(txt, kw)
           out == FilterParagraphs(sel)
       IN /\ text' = txt
          /\ paras' = sel
          /\ kept' = out
          /\ last_kw' = kwi
          /\ docs' = IF ~HasParas(out) THEN docs
                     ELSE [docs EXCEPT ![kw] = AddEntry(@, doc, out)]
          /\ IF KeywordLoopEnds(kwi, out)
             THEN pc' = "record" /\ idx' = idx + 1
             ELSE UNCHANGED <<pc, idx>>
    /\ event' = "none"
    /\ UNCHANGED <<text_vars, variant_vars, main_vars>>
    /\ UNCHANGED <<highlight_vars, quarterly_vars, section_vars>>
    /\ UNCHANGED <<crawler, keywords, start_date, end_date, status, page, nrec,
                   break_page, fetched, doc, records, generated, files>>

(* if break_page: break / if len(records) < self.page_size or break_page: break;
   page += 1 *)
PageEnd ==
    /\ Running("page_end")
    /\ IF break_page \/ (~IsGanfeng /\ nrec < PageSize)
       THEN pc' = "save" /\ page' = page
       ELSE pc' = "fetch" /\ page' = page + 1
    /\ event' = "none"
    /\ UNCHANGED <<text_vars, variant_vars, main_vars>>
    /\ UNCHANGED <<highlight_vars, quarterly_vars, section_vars>>
    /\ UNCHANGED <<crawler, keywords, start_date, end_date, status, nrec, idx,
                   break_page, fetched, doc, records, text, last_kw, paras, kept, docs,
                   generated, files>>

(* One iteration of `for kw, doc in docs.items():` doc.save(path);
   generated[kw] = path *)
Save ==
    /\ Running("save")
    /\ Cardinality(DOMAIN generated) < Len(DocKeys)
    /\ LET kw == DocKeys[Cardinality(DOMAIN generated) + 1]
           path == OutPath(kw)
       IN \/ /\ files' = files \cup {path}
             /\ generated' = [k \in DOMAIN generated \cup {kw} |->
                                 IF k = kw THEN path ELSE generated[k]]
             /\ event' = "none"
             /\ UNCHANGED status
          \/ (* doc.save raises: nothing catches it in the crawl method *)
             /\ status' = "raised"
             /\ event' = "save_failed"
             /\ UNCHANGED <<files, generated>>
    /\ UNCHANGED <<text_vars, variant_vars, main_vars>>
    /\ UNCHANGED <<highlight_vars, quarterly_vars, section_vars>>
    /\ UNCHANGED <<crawler, keywords, start_date, end_date, pc, page, nrec, idx,
                   break_page, fetched, doc, records, text, last_kw, paras, kept, docs>>

(* return generated *)
Return ==
    /\ Running("save")
    /\ Cardinality(DOMAIN generated) = Len(DocKeys)
    /\ status' = "returned"
    /\ event' = "none"
    /\ UNCHANGED <<text_vars, variant_vars, main_vars>>
    /\ UNCHANGED <<highlight_vars, quarterly_vars, section_vars>>
    /\ UNCHANGED <<crawler, keywords, start_date, end_date, pc, page, nrec, idx,
                   break_page, fetched, doc, records, text, last_kw, paras, kept, docs,
                   generated, files>>

(***************************************************************************)
(* The text pipeline on its own: sanitize_text, then the segmentation of   *)
(* find_paragraphs_with_keyword (with the empty keyword every block is     *)
(* returned), on every text of at most MaxTextLen characters.              *)
(***************************************************************************)
TextAlphabet == Ctl \cup {TAB, LF, CR, SP, 97, 38146}

TextIdle == t_pc = "idle" /\ t_raw = <<>> /\ t_text = <<>> /\ t_blocks = <<>>

TextInit ==
    /\ t_raw \in SeqsUpTo(TextAlphabet, MaxTextLen)
    /\ t_pc = "raw"
    /\ t_text = <<>>
    /\ t_blocks = <<>>

T_Sanitize ==
    /\ UNCHANGED <<crawl_vars, variant_vars, main_vars>>
    /\ UNCHANGED <<highlight_vars, quarterly_vars, section_vars>>
    /\ t_pc = "raw"
    /\ t_text' = sanitize_text(t_raw)
    /\ t_pc' = "sanitized"
    /\ UNCHANGED <<t_raw, t_blocks>>

(* text = sanitize_text(text) applied again to the sanitized text, as the
   Sinomine keyword loop does once per keyword. *)
T_Resanitize ==
    /\ UNCHANGED <<crawl_vars, variant_vars, main_vars>>
    /\ UNCHANGED <<highlight_vars, quarterly_vars, section_vars>>
    /\ t_pc = "sanitized"
    /\ t_text' = sanitize_text(t_text)
    /\ t_pc' = "resanitized"
    /\ UNCHANGED <<t_raw, t_blocks>>

T_Segment ==
    /\ UNCHANGED <<crawl_vars, variant_vars, main_vars>>
    /\ UNCHANGED <<highlight_vars, quarterly_vars, section_vars>>
    /\ t_pc \in {"sanitized", "resanitized"}
    /\ t_blocks' = find_paragraphs_with_keyword(t_text, <<>>)
    /\ t_pc' = "segmented"
    /\ UNCHANGED <<t_raw, t_text>>

(* find_paragraphs_with_keyword called on a text that was not sanitized. *)
T_SegmentRaw ==
    /\ UNCHANGED <<crawl_vars, variant_vars, main_vars>>
    /\ UNCHANGED <<highlight_vars, quarterly_vars, section_vars>>
    /\ t_pc = "raw"
    /\ t_blocks' = find_paragraphs_with_keyword(t_raw, <<>>)
    /\ t_pc' = "segmented_raw"
    /\ UNCHANGED <<t_raw, t_text>>

(* The produced paragraphs joined with a blank line and segmented again. *)
T_Resegment ==
    /\ UNCHANGED <<crawl_vars, variant_vars, main_vars>>
    /\ UNCHANGED <<highlight_vars, quarterly_vars, section_vars>>
    /\ t_pc \in {"segmented", "segmented_raw"}
    /\ t_blocks' = find_paragraphs_with_keyword(JoinParas(t_blocks), <<>>)
    /\ t_pc' = "resegmented"
    /\ UNCHANGED <<t_raw, t_text>>

CrawlIdle ==
    /\ crawler = "ganfeng" /\ keywords = <<KW_LATIN>>
    /\ start_date = 0 /\ end_date = 0
    /\ pc = "idle" /\ status = "idle" /\ event = "none"
    /\ page = 0 /\ nrec = 0 /\ idx = 0 /\ break_page = FALSE /\ fetched = 0
    /\ doc = 0 /\ records = <<>>
    /\ text = <<>> /\ last_kw = 0 /\ paras = <<>> /\ kept = <<>>
    /\ docs = <<>> /\ generated = <<>> /\ files = {}

(***************************************************************************)
(* generate_variants run loop by loop on every keyword of at most MaxKwLen *)
(* characters.                                                             *)
(***************************************************************************)
KwAlphabet == {SP, 97, 38146, 19994}

VariantsIdle ==
    g_pc = "idle" /\ g_keyword = <<>> /\ g_i = 0 /\ g_segments = <<>> /\ g_variants = <<>>

(* segments = []; i = 0 *)
VariantsInit ==
    /\ g_keyword \in SeqsUpTo(KwAlphabet, MaxKwLen)
    /\ g_pc = "scan"
    /\ g_i = 0
    /\ g_segments = <<>>
    /\ g_variants = <<>>

(* One iteration of `while i < len(keyword)`: the run starting at i and its
   spaced form are appended, i moves past the run. *)
G_Scan ==
    /\ UNCHANGED <<crawl_vars, text_vars, main_vars>>
    /\ UNCHANGED <<highlight_vars, quarterly_vars, section_vars>>
    /\ g_pc = "scan"
    /\ g_i < Len(g_keyword)
    /\ LET chinese == is_chinese_char(g_keyword[g_i + 1])
           j == RunEnd(g_keyword, g_i + 1, chinese)
           run == SubSeq(g_keyword, g_i + 1, j - 1)
           spaced == IF chinese /\ Len(run) >= 2 THEN JoinWithSpace(run) ELSE run
       IN /\ g_segments' = Append(g_segments, <<run, spaced>>)
          /\ g_i' = j - 1
    /\ UNCHANGED <<g_pc, g_keyword, g_variants>>

(* The loop has ended: build and return the variants. *)
G_Return ==
    /\ UNCHANGED <<crawl_vars, text_vars, main_vars>>
    /\ UNCHANGED <<highlight_vars, quarterly_vars, section_vars>>
    /\ g_pc = "scan"
    /\ ~(g_i < Len(g_keyword))
    /\ g_variants' = VariantsOf(g_segments)
    /\ g_pc' = "done"
    /\ UNCHANGED <<g_keyword, g_i, g_segments>>

(***************************************************************************)
(* main(): the keyword prompt, the check of the list, the date prompts and *)
(* the dispatch of the selected section to its crawl method.               *)
(***************************************************************************)
(* Lines a user can type at the keyword prompt. *)
InputLines == {<<>>, <<SP>>, KW_LATIN, <<SP>> \o KW_CJK \o <<SP>>}

(* The prompt's answer taken as typed. *)
ReadLine_NoStrip(line) == line

(* input(...).strip() *)
ReadLine(line) == Strip(line)

(* The test left out. *)
NoKeywords_Never(kws) == FALSE

(* if not keywords: *)
NoKeywords(kws) == kws = <<>>

MainIdle == m_pc = "idle" /\ m_line = <<>>

(* The company and the section are chosen; keywords = []. *)
MainInit ==
    /\ crawler \in Crawlers
    /\ keywords = <<>>
    /\ start_date = 0 /\ end_date = 0
    /\ pc = "idle" /\ status = "idle" /\ event = "none"
    /\ page = 0 /\ nrec = 0 /\ idx = 0 /\ break_page = FALSE /\ fetched = 0
    /\ doc = 0 /\ records = <<>>
    /\ text = <<>> /\ last_kw = 0 /\ paras = <<>> /\ kept = <<>>
    /\ docs = <<>> /\ generated = <<>> /\ files = {}
    /\ m_pc = "keywords"
    /\ m_line = <<>>

(* kw = input(...).strip(); if not kw: break; keywords.append(kw) *)
M_ReadKeyword ==
    /\ m_pc = "keywords"
    /\ \E line \in InputLines :
          LET kw == ReadLine(line)
          IN /\ Len(keywords) < MaxKeywords \/ kw = <<>>
             /\ m_line' = line
             /\ IF kw = <<>>
                THEN m_pc' = "check" /\ UNCHANGED keywords
                ELSE m_pc' = "keywords" /\ keywords' = Append(keywords, kw)
    /\ UNCHANGED <<text_vars, variant_vars>>
    /\ UNCHANGED <<highlight_vars, quarterly_vars, section_vars>>
    /\ UNCHANGED <<crawler, start_date, end_date, pc, status, event, page, nrec,
                   idx, break_page, fetched, doc, records, text, last_kw, paras, kept,
                   docs, generated, files>>

(* if not keywords: print(...); sys.exit(0) *)
M_CheckKeywords ==
    /\ m_pc = "check"
    /\ m_pc' = IF NoKeywords(keywords) THEN "exit" ELSE "dates"
    /\ UNCHANGED <<crawl_vars, text_vars, variant_vars, m_line>>
    /\ UNCHANGED <<highlight_vars, quarterly_vars, section_vars>>

(* start_date = input(...).strip() or None; end_date likewise *)
M_ReadDates ==
    /\ m_pc = "dates"
    /\ \E r \in DateRanges : start_date' = r[1] /\ end_date' = r[2]
    /\ m_pc' = "dispatch"
    /\ UNCHANGED <<text_vars, variant_vars, m_line>>
    /\ UNCHANGED <<highlight_vars, quarterly_vars, section_vars>>
    /\ UNCHANGED <<crawler, keywords, pc, status, event, page, nrec, idx,
                   break_page, fetched, doc, records, text, last_kw, paras, kept, docs,
                   generated, files>>

(* crawler.run_section(rt, keywords, ...): the section's crawl method is
   called with the keywords and the dates. *)
M_RunSection ==
    /\ m_pc = "dispatch"
    /\ m_pc' = "section"
    /\ pc' = "start"
    /\ status' = "running"
    /\ UNCHANGED <<text_vars, variant_vars, m_line>>
    /\ UNCHANGED <<highlight_vars, quarterly_vars, section_vars>>
    /\ UNCHANGED <<crawler, keywords, start_date, end_date, event, page, nrec,
                   idx, break_page, fetched, doc, records, text, last_kw, paras, kept,
                   docs, generated, files>>

(***************************************************************************)
(* add_keyword_paragraphs on one paragraph: the pattern, the finditer loop *)
(* and the runs added to the paragraph, for every paragraph of at most     *)
(* MaxHlParaLen and every keyword of 1..MaxHlKwLen characters.  Offsets    *)
(* are Python's: 0-based, the end exclusive.                               *)
(***************************************************************************)
(* a, A, '.', s, U+017F (long s), U+00DF (sharp s) *)
HlParaAlphabet == {97, 65, 46, 115, 383, 223}

(* a, A, '.', s *)
HlKwAlphabet == {97, 65, 46, 115}

(* re.IGNORECASE on a str pattern: two characters match when their simple
   lower-case mappings agree, and U+017F is matched with s and S. *)
FoldCh(ch) == IF ch = 383 THEN 115 ELSE LowerCh(ch)

(* The keyword compiled as it stands: '.' is the wildcard. *)
re_escape_None(keyword) ==
    [i \in 1..Len(keyword) |-> [any |-> keyword[i] = 46, ch |-> keyword[i]]]

(* re.escape(keyword): every character of the keyword, the special ones
   included, is a literal of the pattern. *)
re_escape(keyword) ==
    [i \in 1..Len(keyword) |-> [any |-> FALSE, ch |-> keyword[i]]]

(* One pattern element against one character of the paragraph. *)
TokenMatches(tok, ch) ==
    IF tok.any THEN ch # LF ELSE FoldCh(tok.ch) = FoldCh(ch)

MatchesAt(pattern, para, start) ==
    /\ start + Len(pattern) <= Len(para)
    /\ \A j \in 1..Len(pattern) : TokenMatches(pattern[j], para[start + j])

HasMatch(pattern, para, pos) ==
    \E i \in pos..Len(para) : MatchesAt(pattern, para, i)

(* The start of the next match at or after pos. *)
NextMatch(pattern, para, pos) ==
    CHOOSE i \in pos..Len(para) :
        /\ MatchesAt(pattern, para, i)
        /\ \A j \in pos..Len(para) : MatchesAt(pattern, para, j) => i <= j

(* pattern.finditer(para) from pos on: the matches, each search resuming at
   the end of the match before. *)
RECURSIVE FindSpans(_, _, _)
FindSpans(pattern, para, pos) ==
    IF ~HasMatch(pattern, para, pos) THEN <<>>
    ELSE LET start == NextMatch(pattern, para, pos)
         IN <<<<start, start + Len(pattern)>>>>
                \o FindSpans(pattern, para, start + Len(pattern))

(* The plain run written without the test. *)
PlainRun_Always(runs, para, from, to) ==
    Append(runs, [text |-> SubSeq(para, from + 1, to), hl |-> FALSE])

(* if m.start() > pos: p2.add_run(para[pos:m.start()]), and after the loop
   if pos < len(para): p2.add_run(para[pos:]) *)
PlainRun(runs, para, from, to) ==
    IF to > from
    THEN Append(runs, [text |-> SubSeq(para, from + 1, to), hl |-> FALSE])
    ELSE runs

(* pattern = re.compile(re.escape(keyword), re.IGNORECASE) *)
Pattern == re_escape(h_keyword)

(* p2 = doc.add_paragraph(); pos = 0 *)
HighlightInit ==
    /\ h_para \in SeqsUpTo(HlParaAlphabet, MaxHlParaLen)
    /\ h_keyword \in SeqsUpTo(HlKwAlphabet, MaxHlKwLen) \ {<<>>}
    /\ h_pc = "scan"
    /\ h_pos = 0
    /\ h_runs = <<>>
    /\ h_spans = <<>>

(* One iteration of `for m in pattern.finditer(para):`. *)
H_Match ==
    /\ h_pc = "scan"
    /\ HasMatch(Pattern, h_para, h_pos)
    /\ LET start == NextMatch(Pattern, h_para, h_pos)
           end == start + Len(Pattern)
           run_h == [text |-> SubSeq(h_para, start + 1, end), hl |-> TRUE]
       IN /\ h_runs' = Append(PlainRun(h_runs, h_para, h_pos, start), run_h)
          /\ h_spans' = Append(h_spans, <<start, end>>)
          /\ h_pos' = end
    /\ UNCHANGED <<h_pc, h_para, h_keyword>>
    /\ UNCHANGED <<crawl_vars, text_vars, variant_vars, main_vars>>
    /\ UNCHANGED <<quarterly_vars, section_vars>>

(* The loop is exhausted: if pos < len(para): p2.add_run(para[pos:]) *)
H_Tail ==
    /\ h_pc = "scan"
    /\ ~HasMatch(Pattern, h_para, h_pos)
    /\ h_runs' = PlainRun(h_runs, h_para, h_pos, Len(h_para))
    /\ h_pc' = "done"
    /\ UNCHANGED <<h_para, h_keyword, h_pos, h_spans>>
    /\ UNCHANGED <<crawl_vars, text_vars, variant_vars, main_vars>>
    /\ UNCHANGED <<quarterly_vars, section_vars>>

(***************************************************************************)
(* SinomineCrawler.crawl_quarterly_performance: the selections built from  *)
(* the records of the financial-statement listing, then one download,      *)
(* conversion and keyword loop per selection.  A publish date YYYY-MM-DD   *)
(* is the number YYYYMMDD, whose order is the order of the strings; 0 is   *)
(* an empty publishDate.                                                   *)
(***************************************************************************)
QDates == {20140630, 20240515, 20240630, 20241231}

QRanges == {<<0, 0>>, <<20240701, 0>>, <<0, 20240701>>}

(* year = pub.split("-")[0]; md = pub[5:] *)
YearOf(pub) == pub \div 10000

MdOf(pub) == pub % 10000

(* The report type of a publish date, "none" where the loop continues. *)
ReportType(pub) ==
    IF MdOf(pub) = 1231 THEN "annual"
    ELSE IF YearOf(pub) >= 2015 /\ MdOf(pub) = 930 THEN "q3"
    ELSE IF YearOf(pub) >= 2015 /\ MdOf(pub) = 630 THEN "half"
    ELSE IF YearOf(pub) >= 2015 /\ MdOf(pub) = 331 THEN "q1"
    ELSE "none"

(* The records that pass the date window and name a report. *)
Selected(pub) ==
    /\ ~(q_end # 0 /\ pub > q_end)
    /\ ~(q_start # 0 /\ pub < q_start)
    /\ ReportType(pub) # "none"

(* The headings of one selection: for kw in keywords, a heading where the
   keyword has a paragraph in the sanitized text. *)
QHeadings(txt, sel, pub) ==
    LET Hit(kw) == find_paragraphs_with_keyword(sanitize_text(txt), kw) # <<>>
        hits == SelectSeq(q_keywords, Hit)
    IN [n \in 1..Len(hits) |->
            [kw |-> hits[n], year |-> sel.year, rpt |-> sel.rpt, pub |-> pub]]

QuarterlyInit ==
    /\ q_records \in SeqsUpTo(QDates \cup {0}, MaxQRecords)
    /\ \E r \in QRanges : q_start = r[1] /\ q_end = r[2]
    /\ q_keywords \in KeywordLists
    /\ q_pc = "start"
    /\ q_i = 0 /\ q_pub = 0 /\ q_selections = <<>> /\ q_s = 0 /\ q_headings = <<>>

(* The Playwright import, makedirs, docs, and the listing fetched. *)
Q_Start ==
    /\ q_pc = "start"
    /\ \/ q_pc' = "select"
       \/ (* ImportError: return {} *)
          q_pc' = "returned"
    /\ UNCHANGED <<q_records, q_start, q_end, q_keywords, q_i, q_pub,
                   q_selections, q_s, q_headings>>
    /\ UNCHANGED <<crawl_vars, text_vars, variant_vars, main_vars>>
    /\ UNCHANGED <<highlight_vars, section_vars>>

(* One iteration of `for rec in records:`. *)
Q_Select ==
    /\ q_pc = "select"
    /\ q_i < Len(q_records)
    /\ LET pub == q_records[q_i + 1]
       IN IF pub = 0
          THEN (* "".split()[0]: IndexError *)
               /\ q_pc' = "raised"
               /\ UNCHANGED <<q_i, q_pub, q_selections>>
          ELSE /\ q_i' = q_i + 1
               /\ q_pub' = pub
               /\ q_selections' =
                    IF Selected(pub)
                    THEN Append(q_selections,
                                [year |-> YearOf(pub), rpt |-> ReportType(pub)])
                    ELSE q_selections
               /\ UNCHANGED q_pc
    /\ UNCHANGED <<q_records, q_start, q_end, q_keywords, q_s, q_headings>>
    /\ UNCHANGED <<crawl_vars, text_vars, variant_vars, main_vars>>
    /\ UNCHANGED <<highlight_vars, section_vars>>

(* if not selections: return {}; otherwise the browser is opened. *)
Q_Open ==
    /\ q_pc = "select"
    /\ q_i = Len(q_records)
    /\ q_pc' = IF q_selections = <<>> THEN "returned" ELSE "drive"
    /\ UNCHANGED <<q_records, q_start, q_end, q_keywords, q_i, q_pub,
                   q_selections, q_s, q_headings>>
    /\ UNCHANGED <<crawl_vars, text_vars, variant_vars, main_vars>>
    /\ UNCHANGED <<highlight_vars, section_vars>>

(* One iteration of `for year, rpt_cn in selections:`: the download, the
   conversion and the keyword loop. *)
Q_Process ==
    /\ q_pc = "drive"
    /\ q_s < Len(q_selections)
    /\ \/ \E outcome \in DownloadOutcomes :
            /\ download_pdf(outcome) = "exit"
            /\ q_pc' = "exit"
            /\ UNCHANGED <<q_s, q_headings>>
       \/ (* pdftext fails: both clauses remove the temporary files *)
          /\ q_pc' = "raised"
          /\ UNCHANGED <<q_s, q_headings>>
       \/ \E txt \in RawTexts :
            /\ q_headings' =
                 q_headings \o QHeadings(txt, q_selections[q_s + 1], q_pub)
            /\ q_s' = q_s + 1
            /\ UNCHANGED q_pc
    /\ UNCHANGED <<q_records, q_start, q_end, q_keywords, q_i, q_pub, q_selections>>
    /\ UNCHANGED <<crawl_vars, text_vars, variant_vars, main_vars>>
    /\ UNCHANGED <<highlight_vars, section_vars>>

(* browser.close(); the save loop; return generated *)
Q_Return ==
    /\ q_pc = "drive"
    /\ q_s = Len(q_selections)
    /\ q_pc' = "returned"
    /\ UNCHANGED <<q_records, q_start, q_end, q_keywords, q_i, q_pub,
                   q_selections, q_s, q_headings>>
    /\ UNCHANGED <<crawl_vars, text_vars, variant_vars, main_vars>>
    /\ UNCHANGED <<highlight_vars, section_vars>>

(***************************************************************************)
(* main's dispatch loop and CompanyCrawler.run_section.  The crawl method  *)
(* of a section ends as the crawl loops above end: it returns, an          *)
(* exception leaves it, or download_pdf ends the process with sys.exit.    *)
(***************************************************************************)
(* The keys of GanfengCrawler.SECTIONS and of SinomineCrawler.SECTIONS. *)
SectionTables == {{"1", "2"}, {"1", "2", "3"}}

(* What can be typed at the section prompt. *)
SectionInputs == {"1", "2", "3", "9"}

CrawlOutcomes == {"returned", "raised", "exit"}

(* except Exception: SystemExit is not an Exception. *)
CaughtByRunSection(outcome) == outcome = "raised"

SectionsInit ==
    /\ s_sections \in SectionTables
    /\ s_types \in SeqsUpTo(SectionInputs, MaxSections)
    /\ s_pc = "dispatch"
    /\ s_i = 0
    /\ s_log = <<>>
    /\ s_dirs = {}

(* One iteration of `for rt in report_types: crawler.run_section(rt, ...)`. *)
S_RunSection ==
    /\ s_pc = "dispatch"
    /\ s_i < Len(s_types)
    /\ LET key == s_types[s_i + 1]
       IN IF key \notin s_sections
          THEN (* print("Unknown section ..., skipping."); return *)
               /\ s_log' = Append(s_log, [key |-> key, result |-> "unknown"])
               /\ s_i' = s_i + 1
               /\ UNCHANGED <<s_pc, s_dirs>>
          ELSE /\ s_dirs' = s_dirs \cup {key}
               /\ \E outcome \in CrawlOutcomes :
                    IF outcome = "returned"
                    THEN /\ s_log' = Append(s_log, [key |-> key, result |-> "generated"])
                         /\ s_i' = s_i + 1
                         /\ UNCHANGED s_pc
                    ELSE IF CaughtByRunSection(outcome)
                    THEN /\ s_log' = Append(s_log, [key |-> key, result |-> "error"])
                         /\ s_i' = s_i + 1
                         /\ UNCHANGED s_pc
                    ELSE /\ s_log' = Append(s_log, [key |-> key, result |-> "exit"])
                         /\ s_pc' = "exit"
                         /\ UNCHANGED s_i
    /\ UNCHANGED <<s_types, s_sections>>
    /\ UNCHANGED <<crawl_vars, text_vars, variant_vars, main_vars>>
    /\ UNCHANGED <<highlight_vars, quarterly_vars>>

(* The loop is over: main returns. *)
S_Done ==
    /\ s_pc = "dispatch"
    /\ s_i = Len(s_types)
    /\ s_pc' = "done"
    /\ UNCHANGED <<s_types, s_sections, s_i, s_log, s_dirs>>
    /\ UNCHANGED <<crawl_vars, text_vars, variant_vars, main_vars>>
    /\ UNCHANGED <<highlight_vars, quarterly_vars>>

(***************************************************************************)
(* Specifications.                                                         *)
(***************************************************************************)
OthersIdle == HighlightIdle /\ QuarterlyIdle /\ SectionsIdle

Init == CrawlInit /\ TextIdle /\ VariantsIdle /\ MainIdle /\ OthersIdle

Next ==
    \/ Start
    \/ FetchPage
    \/ NextRecord
    \/ Download
    \/ Convert
    \/ KeywordStep
    \/ PageEnd
    \/ Save
    \/ Return

Spec == Init /\ [][Next]_vars

InitText == TextInit /\ CrawlIdle /\ VariantsIdle /\ MainIdle /\ OthersIdle

NextText == T_Sanitize \/ T_Resanitize \/ T_Segment \/ T_SegmentRaw \/ T_Resegment

SpecText == InitText /\ [][NextText]_vars

InitVariants == VariantsInit /\ CrawlIdle /\ TextIdle /\ MainIdle /\ OthersIdle

NextVariants == G_Scan \/ G_Return

SpecVariants == InitVariants /\ [][NextVariants]_vars

(* A run of the program from main() on. *)
InitMain == MainInit /\ TextIdle /\ VariantsIdle /\ OthersIdle

NextMain ==
    \/ M_ReadKeyword
    \/ M_CheckKeywords
    \/ M_ReadDates
    \/ M_RunSection
    \/ Start
    \/ FetchPage
    \/ NextRecord
    \/ Download
    \/ Convert
    \/ KeywordStep
    \/ PageEnd
    \/ Save
    \/ Return

SpecMain == InitMain /\ [][NextMain]_vars

(* The function runs to its end once called: a sequential loop keeps stepping. *)
SpecVariantsFair == SpecVariants /\ WF_vars(NextVariants)

InitHighlight ==
    HighlightInit /\ CrawlIdle /\ TextIdle /\ VariantsIdle /\ MainIdle
        /\ QuarterlyIdle /\ SectionsIdle

NextHighlight == H_Match \/ H_Tail

SpecHighlight == InitHighlight /\ [][NextHighlight]_vars

InitQuarterly ==
    QuarterlyInit /\ CrawlIdle /\ TextIdle /\ VariantsIdle /\ MainIdle
        /\ HighlightIdle /\ SectionsIdle

NextQuarterly == Q_Start \/ Q_Select \/ Q_Open \/ Q_Process \/ Q_Return

SpecQuarterly == InitQuarterly /\ [][NextQuarterly]_vars

InitSections ==
    SectionsInit /\ CrawlIdle /\ TextIdle /\ VariantsIdle /\ MainIdle
        /\ HighlightIdle /\ QuarterlyIdle

NextSections == S_RunSection \/ S_Done

SpecSections == InitSections /\ [][NextSections]_vars

(* The crawl methods on keyword lists whose keywords hold a space or an
   underscore: 'a b' and 'a_b'. *)
PathKeywordPool == {<<97, SP, 98>>, <<97, 95, 98>>}

PathsInit ==
    /\ crawler \in Crawlers
    /\ keywords \in SeqsUpTo(PathKeywordPool, MaxKeywords) \ {<<>>}
    /\ \E r \in DateRanges : start_date = r[1] /\ end_date = r[2]
    /\ pc = "start"
    /\ status = "running"
    /\ event = "none"
    /\ page = 0 /\ nrec = 0 /\ idx = 0 /\ break_page = FALSE /\ fetched = 0
    /\ doc = 0 /\ records = <<>>
    /\ text = <<>> /\ last_kw = 0 /\ paras = <<>> /\ kept = <<>>
    /\ docs = <<>>
    /\ generated = <<>>
    /\ files = {}

InitPaths == PathsInit /\ TextIdle /\ VariantsIdle /\ MainIdle /\ OthersIdle

SpecPaths == InitPaths /\ [][Next]_vars

(***************************************************************************)
(* Vocabulary of the properties.                                           *)
(***************************************************************************)
Elems(s) == {s[i] : i \in 1..Len(s)}

Count(x, s) == Cardinality({i \in 1..Len(s) : s[i] = x})

FirstIdx(x, s) == CHOOSE i \in 1..Len(s) : s[i] = x /\ \A j \in 1..(i - 1) : s[j] # x

RECURSIVE IsSubseq(_, _)
(* a can be obtained from b by deleting elements. *)
IsSubseq(a, b) ==
    IF a = <<>> THEN TRUE
    ELSE IF b = <<>> THEN FALSE
    ELSE IF Head(a) = Head(b) THEN IsSubseq(Tail(a), Tail(b))
    ELSE IsSubseq(a, Tail(b))

(* Case-insensitive containment. *)
ContainsCI(p, k) == Contains(Lower(p), Lower(k))

(* `text`, `paras` and `kept` describe keyword CurKw on record `doc`. *)
Evaluated == status = "running" /\ last_kw > 0
CurKw == keywords[last_kw]

(* The paragraphs of the document being processed. *)
DocParagraphs == Elems(Blocks(text))

(* The spaced variant of a keyword, when it has one. *)
HasSpacedVariant(k) == Len(generate_variants(k)) = 2
SpacedVariant(k) == generate_variants(k)[2]

(* C1: in every crawl path a paragraph of the document is selected for the
   keyword, before the filter, iff it contains (case-insensitively) the
   keyword or one of generate_variants(keyword). *)
C1_SelectedIffKeywordOrVariant ==
    Evaluated =>
        \A p \in DocParagraphs :
            InSeq(p, paras) <=>
                \E v \in {CurKw} \cup Elems(generate_variants(CurKw)) : ContainsCI(p, v)

(* C2: a failed PDF download skips only that document: the crawl is still
   running, at the next record, and a run that has ended has saved every
   keyword's results. *)
C2_DownloadFailureSkipsDocument ==
    /\ event = "download_failed" => (status = "running" /\ pc = "record")
    /\ status = "exit" => \A k \in Elems(keywords) : OutPath(k) \in files

(* C3: in every crawler a failed pdftext conversion skips that document: no
   exception leaves the crawl method and the loop is at the next record. *)
C3_ConversionFailureSkipsDocument ==
    event = "convert_failed" => (status = "running" /\ pc = "record")

(* C4: the paragraphs listed for a document and keyword are in the order in
   which they appear in the document's text. *)
C4_ParagraphsInSourceOrder ==
    Evaluated => IsSubseq(kept, Blocks(text))

(* C5: in the variant-searching crawl (Ganfeng), a paragraph that matches both
   the keyword and its spaced variant is listed exactly once for the document,
   at the place of its first occurrence among the hits of the two searches. *)
C5_MatchedByBothListedOnce ==
    (Evaluated /\ IsGanfeng /\ HasSpacedVariant(CurKw)) =>
        LET hits == find_paragraphs_with_keyword(text, CurKw)
                      \o find_paragraphs_with_keyword(text, SpacedVariant(CurKw))
            entry == docs[CurKw][Len(docs[CurKw])]
        IN \A p \in DocParagraphs :
            (ContainsCI(p, CurKw) /\ ContainsCI(p, SpacedVariant(CurKw))) =>
                /\ Count(p, kept) = 1
                /\ docs[CurKw] # <<>> /\ entry.doc = doc /\ entry.paras = kept
                /\ \A q \in Elems(kept) :
                      FirstIdx(q, kept) < FirstIdx(p, kept)
                          <=> FirstIdx(q, hits) < FirstIdx(p, hits)

C5_Witness ==
    /\ Evaluated /\ IsGanfeng /\ HasSpacedVariant(CurKw)
    /\ \E p \in DocParagraphs :
          /\ ContainsCI(p, CurKw) /\ ContainsCI(p, SpacedVariant(CurKw))
          /\ InSeq(p, kept)
          /\ Len(kept) = 2

(* C6: de-duplication is per document: a paragraph listed for the keyword under
   an earlier document and present in the document being processed is listed
   under this document too, so the keyword's result holds both entries. *)
C6_DedupScopedToDocument ==
    Evaluated =>
        \A i \in 1..Len(docs[CurKw]) :
            LET e == docs[CurKw][i]
            IN e.doc # doc =>
                \A p \in Elems(e.paras) :
                    p \in DocParagraphs =>
                        \E j \in 1..Len(docs[CurKw]) :
                            /\ docs[CurKw][j].doc = doc
                            /\ InSeq(p, docs[CurKw][j].paras)

C6_Witness ==
    /\ Evaluated /\ IsGanfeng
    /\ \E i, j \in 1..Len(docs[CurKw]) :
          /\ docs[CurKw][i].doc # doc
          /\ docs[CurKw][j].doc = doc
          /\ \E p \in DocParagraphs :
                InSeq(p, docs[CurKw][i].paras) /\ InSeq(p, docs[CurKw][j].paras)

(* C7: where the CJK filter is applied, a selected paragraph is kept iff it has
   a character in U+4E00..U+9FFF or a full-width comma or full stop. *)
C7_FilterKeepsCJKOrFullWidthMarks ==
    (Evaluated /\ IsGanfeng) =>
        \A p \in Elems(paras) :
            InSeq(p, kept) <=>
                \E i \in 1..Len(p) :
                    (p[i] >= CJK_LO /\ p[i] <= CJK_HI) \/ p[i] = FW_COMMA \/ p[i] = FW_STOP

(* C8: a keyword with no match in any document gets no output document and is
   absent from the returned mapping. *)
C8_NoMatchNoOutput ==
    status = "returned" =>
        \A k \in Elems(keywords) :
            docs[k] = <<>> => (k \notin DOMAIN generated /\ OutPath(k) \notin files)

(* C9: normalization turns each '\r\n' and each lone '\r' into exactly one
   '\n', so two paragraphs separated only by '\r\r' are two paragraphs after
   sanitize-then-segment. *)
LineEndings(raw) ==
    Cardinality({i \in 1..Len(raw) :
        raw[i] = CR \/ (raw[i] = LF /\ (i = 1 \/ raw[i - 1] # CR))})

SeparatedByCRCR(raw) ==
    \E i \in 2..(Len(raw) - 2) :
        /\ raw[i] = CR /\ raw[i + 1] = CR
        /\ \A j \in (1..Len(raw)) \ {i, i + 1} : raw[j] > SP /\ ~IsSpace(raw[j])

C9_LineEndingsBecomeNewlines ==
    /\ t_pc \in {"sanitized", "segmented"} => Count(LF, t_text) = LineEndings(t_raw)
    /\ (t_pc = "segmented" /\ SeparatedByCRCR(t_raw)) => Len(t_blocks) = 2

(* C10: sanitize_text removes exactly the characters of ordinal below 32 other
   than tab and newline; the others are returned unchanged, in order. *)
C10_SanitizeRemovesExactlyControls ==
    t_pc \in {"sanitized", "segmented"} =>
        LET keptIdx == {i \in 1..Len(t_raw) : t_raw[i] >= SP \/ t_raw[i] \in {TAB, LF}}
            Nth(j) == CHOOSE i \in keptIdx : Cardinality({m \in keptIdx : m <= i}) = j
        IN /\ Len(t_text) = Cardinality(keptIdx)
           /\ \A j \in 1..Len(t_text) : t_text[j] = t_raw[Nth(j)]

C10_Witness ==
    /\ t_pc = "sanitized"
    /\ {1, CR, TAB, 38146} \subseteq Elems(t_raw)
    /\ Len(t_text) = 2

(* C11: sanitizing is idempotent: applying sanitize_text again to an already
   sanitized text, as the Sinomine keyword loop does for each further keyword,
   leaves the text unchanged. *)
C11_SanitizeIdempotent ==
    [][t_pc' = "resanitized" => t_text' = t_text]_vars

C11_Witness ==
    /\ t_pc = "resanitized"
    /\ {1, CR, LF} \subseteq Elems(t_raw)
    /\ t_text # t_raw

(* The text the segmentation was applied to. *)
Segmented == t_pc \in {"segmented", "segmented_raw"}
SegInput == IF t_pc = "segmented_raw" THEN t_raw ELSE t_text

(* The lines of a text (ended by '\r\n', '\r' or '\n'), the blank ones, and
   the maximal runs of consecutive non-blank lines, each joined and trimmed. *)
RECURSIVE LinesFrom(_, _, _)
LinesFrom(t, s, i) ==
    IF i > Len(t) THEN <<SubSeq(t, s, Len(t))>>
    ELSE IF t[i] = CR /\ i < Len(t) /\ t[i + 1] = LF
         THEN <<SubSeq(t, s, i - 1)>> \o LinesFrom(t, i + 2, i + 2)
    ELSE IF t[i] \in {CR, LF} THEN <<SubSeq(t, s, i - 1)>> \o LinesFrom(t, i + 1, i + 1)
    ELSE LinesFrom(t, s, i + 1)

LinesOf(t) == LinesFrom(t, 1, 1)

IsBlank(line) == \A i \in 1..Len(line) : IsSpace(line[i])

RECURSIVE RunsFrom(_, _, _)
(* cur: the run being collected, as text; open: whether it has a line yet. *)
RunsFrom(lines, cur, open) ==
    IF lines = <<>> THEN (IF open THEN <<cur>> ELSE <<>>)
    ELSE IF IsBlank(Head(lines))
         THEN (IF open THEN <<cur>> ELSE <<>>) \o RunsFrom(Tail(lines), <<>>, FALSE)
         ELSE RunsFrom(Tail(lines),
                       IF open THEN cur \o <<LF>> \o Head(lines) ELSE Head(lines),
                       TRUE)

NonBlankRuns(t) ==
    LET runs == RunsFrom(LinesOf(t), <<>>, FALSE)
    IN [i \in 1..Len(runs) |-> Strip(runs[i])]

(* C12: segmentation returns exactly the maximal runs of consecutive non-blank
   lines of the text, trimmed, in order, and no returned paragraph has a blank
   line inside it. *)
C12_SegmentsAreNonBlankRuns ==
    Segmented =>
        /\ t_blocks = NonBlankRuns(SegInput)
        /\ \A b \in Elems(t_blocks) : \A l \in Elems(LinesOf(b)) : ~IsBlank(l)

C12_Witness ==
    /\ Segmented
    /\ Len(t_blocks) = 2
    /\ \E l \in Elems(LinesOf(SegInput)) : l # <<>> /\ IsBlank(l)

(* C13: no paragraph produced by segmentation is empty or whitespace-only, and
   none starts or ends with a whitespace character, whatever the input text. *)
C13_ParagraphsTrimmedAndNonEmpty ==
    Segmented =>
        \A b \in Elems(t_blocks) :
            /\ b # <<>>
            /\ ~IsBlank(b)
            /\ ~IsSpace(b[1]) /\ ~IsSpace(b[Len(b)])

(* A text that starts with blank lines and whose only paragraph is followed by
   whitespace. *)
C13_Witness ==
    /\ Segmented
    /\ Len(SegInput) = MaxTextLen
    /\ SegInput[1] = LF /\ SegInput[2] = LF
    /\ IsSpace(SegInput[Len(SegInput)])
    /\ Len(t_blocks) = 1

(* C14: joining the produced paragraphs with '\n\n' and segmenting the joined
   text again yields the same ordered list of paragraphs. *)
C14_SegmentationRoundTrips ==
    [][t_pc' = "resegmented" => t_blocks' = t_blocks]_vars

(* Two paragraphs that the input separated by something other than '\n\n'. *)
C14_Witness ==
    /\ t_pc = "resegmented"
    /\ Len(t_blocks) = 2
    /\ JoinParas(t_blocks) # t_raw
    /\ Len(t_raw) = MaxTextLen

(* The adjacent pairs of CJK characters of a keyword, and the keyword with one
   space inserted inside every such pair. *)
CJKPairs(k) ==
    {i \in 1..(Len(k) - 1) : is_chinese_char(k[i]) /\ is_chinese_char(k[i + 1])}

SpacedForm(k) ==
    Concat([i \in 1..Len(k) |-> IF i \in CJKPairs(k) THEN <<k[i], SP>> ELSE <<k[i]>>])

(* C15: generate_variants(k) is [k] when k has no two adjacent CJK characters,
   and otherwise [k, s] with s = k with one space inserted between every pair
   of adjacent CJK characters, so that len(s) = len(k) + number of pairs. *)
C15_VariantsAreKeywordAndSpacedForm ==
    g_pc = "done" =>
        IF CJKPairs(g_keyword) = {}
        THEN g_variants = <<g_keyword>>
        ELSE /\ g_variants = <<g_keyword, SpacedForm(g_keyword)>>
             /\ Len(g_variants[2]) = Len(g_keyword) + Cardinality(CJKPairs(g_keyword))

(* A keyword of three runs with exactly one pair of adjacent CJK characters. *)
C15_Witness ==
    /\ g_pc = "done"
    /\ Len(g_segments) = 3
    /\ Cardinality(CJKPairs(g_keyword)) = 1
    /\ Len(g_variants) = 2

(* C16: for every keyword, the empty one included, the scan loop terminates
   and generate_variants returns one or two elements, the first of which is
   the keyword. *)
C16_VariantsStartWithKeywordAndTerminate ==
    /\ [](g_pc = "done" =>
            /\ Len(g_variants) \in {1, 2}
            /\ g_variants[1] = g_keyword)
    /\ <>(g_pc = "done")

(* A keyword of MaxKwLen characters mixing CJK and non-CJK runs. *)
C16_Witness ==
    /\ g_pc = "done"
    /\ Len(g_keyword) = MaxKwLen
    /\ Len(g_segments) >= 3
    /\ \E i \in 1..Len(g_keyword) : is_chinese_char(g_keyword[i])

NoDuplicates(s) == \A i, j \in 1..Len(s) : s[i] = s[j] => i = j

(* C17: a document entry is added to a keyword's result only when a paragraph
   of the document survives matching, de-duplication and the filter; every
   listed paragraph contains the keyword or one of its variants, whatever the
   case; and where both are applied the list is de-duplicated before it is
   filtered. *)
C17_EntriesOnlyForSurvivingParagraphs ==
    /\ \A k \in DOMAIN docs : \A i \in 1..Len(docs[k]) :
          /\ docs[k][i].paras # <<>>
          /\ \A p \in Elems(docs[k][i].paras) :
                \E v \in {k} \cup Elems(generate_variants(k)) : ContainsCI(p, v)
    /\ Evaluated =>
          ((\E i \in 1..Len(docs[CurKw]) : docs[CurKw][i].doc = doc) <=> kept # <<>>)
    /\ (Evaluated /\ IsGanfeng) =>
          /\ NoDuplicates(paras)
          /\ Elems(paras) = {p \in DocParagraphs :
                 \E v \in Elems(generate_variants(CurKw)) : ContainsCI(p, v)}
          /\ IsSubseq(kept, paras)

(* The first keyword's only match was filtered out and got no entry; the
   second keyword's paragraph was found by both variants and is listed once. *)
C17_Witness ==
    /\ Evaluated /\ IsGanfeng /\ last_kw = 2
    /\ docs[keywords[1]] = <<>>
    /\ \E p \in DocParagraphs : ContainsCI(p, keywords[1])
    /\ \E i \in 1..Len(docs[CurKw]) : docs[CurKw][i].doc = doc
    /\ Len(VariantHits(text, CurKw)) > Len(kept)

(* C18 as stated: an empty or whitespace-only keyword never reaches a crawl
   method, and after it the run goes on taking keywords. *)
C18_EmptyKeywordRejectedRunContinues ==
    /\ [](\A i \in 1..Len(keywords) : ~IsBlank(keywords[i]))
    /\ [][(M_ReadKeyword /\ IsBlank(m_line')) => m_pc' = "keywords"]_vars

(* C18 amended: an empty or whitespace-only keyword never reaches a crawl
   method; it ends the keyword entry, and the run continues with exactly the
   keywords entered before it. *)
C18_EmptyKeywordEndsEntry ==
    /\ [](\A i \in 1..Len(keywords) : ~IsBlank(keywords[i]))
    /\ [][(M_ReadKeyword /\ IsBlank(m_line')) =>
            (keywords' = keywords /\ m_pc' = "check")]_vars
    /\ [][m_pc # "keywords" => keywords' = keywords]_vars

(* A whitespace-only line typed after one keyword; the crawl runs with it. *)
C18_Witness ==
    /\ m_pc = "section" /\ pc = "fetch"
    /\ m_line = <<SP>>
    /\ Len(keywords) = 1

(* C19: when no keyword is supplied the run ends before any section crawl
   starts: no page is fetched, no document downloaded, no file written. *)
C19_NoKeywordsNoCrawl ==
    (keywords = <<>> /\ m_pc \notin {"idle", "keywords", "check"}) =>
        /\ m_pc = "exit"
        /\ pc = "idle" /\ status = "idle"
        /\ fetched = 0 /\ doc = 0 /\ files = {} /\ generated = <<>>

C19_Witness ==
    /\ m_pc = "exit"
    /\ keywords = <<>>
    /\ m_line = <<SP>>

(* C20: once a document's text is extracted, the keywords are evaluated
   against it one after the other in list order, a keyword without a match
   does not stop the loop, and no other document is taken up and no page
   fetched before the last keyword has been evaluated. *)
C20_AllKeywordsBeforeNextDocument ==
    /\ [][KeywordStep => (last_kw' = last_kw + 1 /\ doc' = doc /\ page' = page)]_vars
    /\ [][(pc = "keywords" /\ pc' # "keywords") => last_kw' = Len(keywords)]_vars
    /\ [][(doc' # doc \/ page' # page \/ fetched' # fetched) =>
            (pc # "keywords" /\ last_kw \in {0, Len(keywords)})]_vars

(* The first keyword had no match in the document, the second was still
   evaluated and has an entry. *)
C20_Witness ==
    /\ Evaluated /\ ~IsGanfeng
    /\ last_kw = 2 /\ keywords[1] # keywords[2]
    /\ docs[keywords[1]] = <<>>
    /\ docs[keywords[2]] # <<>>
    /\ pc = "record"

(* C21: in every crawl that begins, each keyword's result is handed to the
   writer after the last document: a crawl that has ended for any cause other
   than a failed write, a failed page fetch or download included, has saved
   the document of every keyword. *)
C21_EveryCrawlSavesEachResult ==
    (status # "running" /\ event # "save_failed") =>
        \A k \in Elems(keywords) : k \in DOMAIN generated /\ generated[k] \in files

(* C22: a failed write of one keyword's document does not end the save loop:
   the crawl is still running and goes on to the later keywords. *)
C22_FailedWriteDoesNotBlockLaterKeywords ==
    event = "save_failed" => status = "running"

(* The claim's window: a dated record is outside it when it is later than a
   given end_date or earlier than a given start_date. *)
OutOfWindow(d) ==
    d # 0 /\ ((end_date # 0 /\ d > end_date) \/ (start_date # 0 /\ d < start_date))

InWindow(d) == d # 0 /\ ~OutOfWindow(d)

(* C26: no record dated outside the window is downloaded, converted or
   matched, and no entry is added to a keyword's result while the loop is at
   such a record. *)
C26_NoRecordOutsideWindowProcessed ==
    /\ [](Running("download") \/ Running("convert") \/ Running("keywords")
            => ~OutOfWindow(pub_date))
    /\ [][(pc # "start" /\ docs' # docs) =>
            (pc = "keywords" /\ ~OutOfWindow(pub_date))]_vars

(* Both dates given: the first record of the page is later than end_date and
   was passed over, the second is inside the window and is being downloaded. *)
C26_Witness ==
    /\ start_date # 0 /\ end_date # 0
    /\ Running("download") /\ idx = 2
    /\ OutOfWindow(records[1])
    /\ InWindow(pub_date)

(* C27: whatever the order of the records on a page, no record dated inside
   the window is left unexamined when the loop leaves the page. *)
C27_NoInWindowRecordLeftBehind ==
    (Running("page_end") /\ break_page) =>
        \A j \in (idx + 1)..nrec : ~InWindow(records[j])

(* Letters that differ only in case: a/A and s/S/long s. *)
CaseClasses == {{97, 65}, {115, 83, 383}}

SameLetter(a, b) == a = b \/ \E c \in CaseClasses : a \in c /\ b \in c

(* The keyword stands in p at the 0-based offset i, character for character,
   case ignored. *)
OccursAt(p, k, i) ==
    /\ i + Len(k) <= Len(p)
    /\ \A j \in 1..Len(k) : SameLetter(p[i + j], k[j])

RunTexts == [i \in 1..Len(h_runs) |-> h_runs[i].text]

IsHighlighted(run) == run.hl

(* C23: the highlighted spans are the occurrences of the keyword, taken
   literally and without regard to case, found from left to right: each span
   is an occurrence that starts at or after the end of the span before it, no
   occurrence starts between them, and none starts after the last span; a
   paragraph without an occurrence ends the scan with no span. *)
C23_SpansAreLeftToRightOccurrences ==
    h_pc = "done" =>
        /\ \A n \in 1..Len(h_spans) :
             LET from == IF n = 1 THEN 0 ELSE h_spans[n - 1][2]
                 start == h_spans[n][1]
             IN /\ start >= from
                /\ h_spans[n][2] = start + Len(h_keyword)
                /\ OccursAt(h_para, h_keyword, start)
                /\ \A i \in from..start : i < start => ~OccursAt(h_para, h_keyword, i)
        /\ LET last == IF h_spans = <<>> THEN 0 ELSE h_spans[Len(h_spans)][2]
           IN \A i \in last..Len(h_para) : ~OccursAt(h_para, h_keyword, i)

(* 'aa' in 'aaa': one span, [0, 2). *)
C23_Witness ==
    /\ h_pc = "done"
    /\ h_para = <<97, 97, 97>>
    /\ h_keyword = <<97, 97>>
    /\ h_spans = << <<0, 2>> >>

(* str.upper(): a..z, and the two characters whose upper case is S and SS. *)
UpperOf(ch) ==
    IF ch >= 97 /\ ch <= 122 THEN <<ch - 32>>
    ELSE IF ch = 383 THEN <<83>>
    ELSE IF ch = 223 THEN <<83, 83>>
    ELSE <<ch>>

Upper(s) == Concat([i \in 1..Len(s) |-> UpperOf(s[i])])

(* C24: scanning the upper-cased paragraph with the lower-cased keyword finds
   the same spans as scanning the paragraph with the keyword, and the
   lower-cased containment test holds of a paragraph exactly when the scan
   finds a span in it. *)
C24_MatchingInvariantUnderCaseChange ==
    h_pc = "done" =>
        /\ FindSpans(re_escape(Lower(h_keyword)), Upper(h_para), 0) = h_spans
        /\ (h_spans # <<>>) <=> ContainsCI(h_para, h_keyword)

(* C28: the runs written so far spell the paragraph up to pos, and at the end
   the whole paragraph; the highlighted runs are the matched spans in order;
   no plain run is empty. *)
C28_RunsSpellTheParagraph ==
    /\ h_pc = "scan" => Concat(RunTexts) = SubSeq(h_para, 1, h_pos)
    /\ h_pc = "done" => Concat(RunTexts) = h_para
    /\ LET marked == SelectSeq(h_runs, IsHighlighted)
       IN /\ Len(marked) = Len(h_spans)
          /\ \A n \in 1..Len(marked) :
                marked[n].text = SubSeq(h_para, h_spans[n][1] + 1, h_spans[n][2])
    /\ \A i \in 1..Len(h_runs) : ~h_runs[i].hl => h_runs[i].text # <<>>

(* A plain run, a highlighted run and a plain run. *)
C28_Witness ==
    /\ h_pc = "done"
    /\ Len(h_runs) = 3
    /\ ~h_runs[1].hl /\ h_runs[2].hl /\ ~h_runs[3].hl

(* The publish date that produces the selection (year, report type). *)
OwnDate(year, rpt) ==
    year * 10000 + (IF rpt = "annual" THEN 1231
                    ELSE IF rpt = "q3" THEN 930
                    ELSE IF rpt = "half" THEN 630
                    ELSE 331)

(* C25: every heading of the Sinomine quarterly crawl carries the publish
   date of the record that produced its (year, report type) selection. *)
C25_HeadingCarriesOwnPublishDate ==
    \A n \in 1..Len(q_headings) :
        q_headings[n].pub = OwnDate(q_headings[n].year, q_headings[n].rpt)

(* C29: a section whose crawl fails does not keep the remaining sections from
   being run: when the dispatch is over, every selected section has been run
   or skipped, in the order given; and an unknown key is skipped without a
   crawl and without a directory. *)
C29_FailedSectionDoesNotStopTheRest ==
    /\ s_pc \in {"done", "exit"} =>
          /\ Len(s_log) = Len(s_types)
          /\ \A n \in 1..Len(s_log) : s_log[n].key = s_types[n]
    /\ \A n \in 1..Len(s_log) :
          s_log[n].key \notin s_sections =>
              (s_log[n].result = "unknown" /\ s_log[n].key \notin s_dirs)

(* C30: two distinct keywords of the list are saved to two distinct paths. *)
C30_DistinctKeywordsDistinctPaths ==
    \A k1 \in DOMAIN generated : \A k2 \in DOMAIN generated :
        k1 # k2 => generated[k1] # generated[k2]

=============================================================================
